---- MODULE Spec2Model ----
(***************************************************************************)
(* Model of the ado-interface gateway (src/app): the user and              *)
(* configuration tables, PAT authentication by fingerprint, the            *)
(* configuration endpoints and the work-item endpoints with the upstream   *)
(* calls they make.                                                        *)
(*                                                                         *)
(* Requests are served concurrently (FastAPI runs these endpoints in a     *)
(* thread pool), so an endpoint is not one step: each database statement   *)
(* or commit and each upstream call is a step of its request, and steps of *)
(* other requests may come in between.                                     *)
(*                                                                         *)
(* Conventions.                                                            *)
(*   Optional values are sequences of length <= 1: <<>> is Python's None   *)
(*   and <<v>> is the value v.  A query's .first() is likewise <<>> or     *)
(*   <<row>>.                                                              *)
(*   Text that the code takes apart (the tag string, the id list) is a     *)
(*   sequence of one-character strings; text the code only copies is a     *)
(*   string.                                                               *)
(*   A dict is a function whose DOMAIN is the set of keys present.         *)
(***************************************************************************)
EXTENDS Integers, Sequences, FiniteSets, TLC

VARIABLES
    users,      \* rows of table "users", in insertion order
    configs,    \* rows of table "user_configs", in insertion order
    workitems,  \* upstream: work item id -> field bag
    reqs        \* the requests being served or last served, one per worker

vars == <<users, configs, workitems, reqs>>

None == <<>>
Some(v) == <<v>>

\* Python truthiness of an Optional[str]: None and "" are falsy.
Truthy(o) == o # None /\ o[1] # ""

Min(a, b) == IF a < b THEN a ELSE b
Max(a, b) == IF a > b THEN a ELSE b

(***************************************************************************)
(* Bounds and input sets                                                   *)
(***************************************************************************)
MaxMatches == 5
MaxLimit == 3
MaxOffset == 2

Usernames == {"alice", "bob", "carol"}
Tokens == {"p", "q", "z", ""}
Salts == {"s1", "s2"}

\* The workers that serve requests at the same time.
Slots == {"w1", "w2"}

(***************************************************************************)
(* app/config.py: the system-wide defaults                                 *)
(***************************************************************************)
AZURE_DEVOPS_ORG == "your-org"
AZURE_DEVOPS_PROJECT == "your-project"
AZURE_DEVOPS_PAT == "your-pat"
API_VERSION == "7.1-preview.7"

(***************************************************************************)
(* app/utils.py: password hashing and the PAT fingerprint                  *)
(***************************************************************************)
\* bcrypt, symbolically: the digest is determined by the salt and the
\* password and by nothing else, and the salt is stored with it.
get_password_hash(password, salt) ==
    [scheme |-> "bcrypt", salt |-> salt, checksum |-> <<salt, password>>]

\* pwd_context.verify: hash the presented password under the stored salt and
\* compare with the stored digest.
verify_password(plain_password, hashed_password) ==
    get_password_hash(plain_password, hashed_password.salt) = hashed_password

\* SHA-256 hex digests of the tokens in play, by name: different tokens have
\* different digests.
SHA256 ==
    [t \in Tokens |->
       CASE t = "p" -> "sha256-of-p" [] t = "q" -> "sha256-of-q"
         [] t = "z" -> "sha256-of-z" [] OTHER -> "sha256-of-empty"]

compute_pat_fingerprint(pat) == SHA256[pat]

(***************************************************************************)
(* The result of a call: the value it returns or the exception it raises.  *)
(***************************************************************************)
Return(v) == [raised |-> "", value |-> v]

Raise(exc) == [raised |-> exc, value |-> None]

Raised(result) == result.raised # ""

(***************************************************************************)
(* app/models.py and app/crud.py                                           *)
(***************************************************************************)
\* The columns models.py declares for UserModel.  pat_fingerprint, which
\* crud.py writes and filters on, is not among them.
UserColumns == {"id", "username", "full_name", "hashed_password", "disabled", "created_at"}

Rows(table) == {table[i] : i \in 1..Len(table)}

\* Query.first() with no ORDER BY: None when nothing matches, otherwise some
\* matching row (SQL leaves open which).  The set of possible results.
First(rows) == IF rows = {} THEN {None} ELSE {Some(r) : r \in rows}

get_user_by_username(db_users, username) ==
    First({u \in Rows(db_users) : u.username = username})

\* get_user_by_pat computes the fingerprint and then builds the filter
\* UserModel.pat_fingerprint == fingerprint; the class has no such attribute,
\* so the expression raises before any query is sent.
get_user_by_pat(db_users, pat) ==
    LET fingerprint == compute_pat_fingerprint(pat)
    IN IF "pat_fingerprint" \in UserColumns
         THEN { IF user # None /\ verify_password(pat, user[1].hashed_password)
                  THEN Return(user) ELSE Return(None)
                : user \in First({u \in Rows(db_users) : u.pat_fingerprint = fingerprint}) }
         ELSE {Raise("AttributeError")}

\* create_user hashes the password, computes the fingerprint and constructs
\* UserModel(..., pat_fingerprint=fingerprint); the constructor rejects the
\* keyword it has no column for, so nothing is added or committed.
create_user(db_users, username, full_name, password, salt) ==
    LET hashed_password == get_password_hash(password, salt)
        fingerprint == compute_pat_fingerprint(password)
    IN IF "pat_fingerprint" \in UserColumns
         THEN Return(Append(db_users,
                            [id |-> Len(db_users) + 1, username |-> username,
                             full_name |-> full_name, hashed_password |-> hashed_password,
                             pat_fingerprint |-> fingerprint,
                             disabled |-> FALSE, created_at |-> "now"]))
         ELSE Raise("TypeError")

(***************************************************************************)
(* app/auth.py                                                             *)
(***************************************************************************)
\* The 401 of get_api_key.
AuthFailure == [status |-> 401, body |-> [detail |-> "Invalid API key"]]

\* What an exception no handler catches becomes: Starlette's plain-text 500.
InternalServerError == [status |-> 500, body |-> [text |-> "Internal Server Error"]]

\* get_api_key, given what get_user_by_pat gave: the user it returns, or the
\* response the request ends with.
get_api_key(found) ==
    IF Raised(found) THEN [user |-> None, early |-> Some(InternalServerError)]
    ELSE IF found.value = None THEN [user |-> None, early |-> Some(AuthFailure)]
    ELSE [user |-> found.value, early |-> None]

(***************************************************************************)
(* The steps of a request.  A step gives the request's next position, the  *)
(* locals it carries there, the outbound calls it made and, when it ends   *)
(* the request, the response.                                              *)
(***************************************************************************)
NoBody == [detail |-> ""]

NoLocals == <<>>

\* The request goes on at position pc with locals loc.
Pending(pc, loc, made) ==
    [pc |-> pc, loc |-> loc, calls |-> made, status |-> 0, body |-> NoBody]

\* The request ends: the endpoint returned (200) or raised.
Done(status, body, made) ==
    [pc |-> "done", loc |-> NoLocals, calls |-> made, status |-> status, body |-> body]

(***************************************************************************)
(* app/main.py: configuration                                              *)
(***************************************************************************)
ConfigFields == {"azure_devops_org", "azure_devops_project", "azure_devops_pat", "api_version"}

ConfigOf(db_configs, uid) == First({c \in Rows(db_configs) : c.user_id = uid})

\* The read-facing shape (schemas.Config): no PAT.
ConfigView(c) ==
    [azure_devops_org |-> c.azure_devops_org,
     azure_devops_project |-> c.azure_devops_project,
     api_version |-> c.api_version]

NewConfig(db_configs, uid, org, project, pat, version) ==
    [id |-> Len(db_configs) + 1,
     user_id |-> uid,
     azure_devops_org |-> org,
     azure_devops_project |-> project,
     azure_devops_pat |-> pat,
     api_version |-> version]

\* db.add(config_record); db.commit(): user_configs.user_id is unique, so the
\* INSERT fails when a row of that user has been committed in the meantime.
\* Nothing catches the IntegrityError.
AddAndCommit(db_configs, config_record) ==
    IF \E c \in Rows(db_configs) : c.user_id = config_record.user_id
      THEN Raise("IntegrityError")
      ELSE Return(Append(db_configs, config_record))

\* What a step that adds and commits a record leaves: the table and the
\* step, which goes on to db.refresh(config_record).
Added(db_configs, added) ==
    IF Raised(added)
      THEN [configs |-> db_configs,
            step |-> Done(InternalServerError.status, InternalServerError.body, <<>>)]
      ELSE [configs |-> added.value,
            step |-> Pending("refresh", [id |-> added.value[Len(added.value)].id], <<>>)]

\* A get_user_config that falls back to the defaults instead of raising.
get_user_config_lazy(record) ==
    IF record = None
      THEN Some([azure_devops_org |-> AZURE_DEVOPS_ORG,
                 azure_devops_project |-> AZURE_DEVOPS_PROJECT,
                 api_version |-> API_VERSION])
      ELSE Some(ConfigView(record[1]))

\* get_user_config, the helper of the work-item endpoints, `record` being
\* what its query's .first() gave.  <<>> stands for the HTTPException(404)
\* it raises.
get_user_config(record) ==
    IF record = None THEN None ELSE Some(ConfigView(record[1]))

NoConfigFound == [status |-> 404, body |-> [detail |-> "No configuration found for the user."]]

\* A get_config without the "if not config_record" test.
get_config_always_creates(record) == Pending("create", NoLocals, <<>>)

\* GET /config, the query of main.py 83: `record` is what .first() gave.
get_config_query(record) ==
    IF record = None
      THEN Pending("create", NoLocals, <<>>)
      ELSE Done(200, ConfigView(record[1]), <<>>)

\* GET /config, main.py 86-94: the default record is added and committed.
get_config_create(db_configs, uid) ==
    Added(db_configs,
          AddAndCommit(db_configs,
                       NewConfig(db_configs, uid, AZURE_DEVOPS_ORG, AZURE_DEVOPS_PROJECT,
                                 AZURE_DEVOPS_PAT, API_VERSION)))

\* db.refresh(config_record) and the return: the row is read again and its
\* view returned.
config_refresh(db_configs, id) ==
    Done(200, ConfigView(CHOOSE c \in Rows(db_configs) : c.id = id), <<>>)

\* An update_config that lets a partial create a record.
update_config_query_lenient(record, update) ==
    IF record = None THEN Pending("create", NoLocals, <<>>)
                     ELSE Pending("commit", [loaded |-> record[1]], <<>>)

\* PUT /config, the query of main.py 115 and the test of 117-128.
update_config_query(record, update) ==
    IF record = None
      THEN IF \E f \in ConfigFields : update[f] = None
             THEN Done(400,
                       [detail |-> "All required fields must be provided to create a new configuration."],
                       <<>>)
             ELSE Pending("create", NoLocals, <<>>)
      ELSE Pending("commit", [loaded |-> record[1]], <<>>)

\* PUT /config, main.py 129-137: the record is added and committed.
update_config_create(db_configs, uid, update) ==
    Added(db_configs,
          AddAndCommit(db_configs,
                       NewConfig(db_configs, uid,
                                 IF update.azure_devops_org = None
                                   THEN None ELSE update.azure_devops_org[1],
                                 IF update.azure_devops_project = None
                                   THEN None ELSE update.azure_devops_project[1],
                                 IF update.azure_devops_pat = None
                                   THEN None ELSE update.azure_devops_pat[1],
                                 IF update.api_version = None
                                   THEN None ELSE update.api_version[1])))

\* The columns the commit writes after the assignments of main.py 140-147,
\* with their values: the fields given in the update whose value differs
\* from the one the query loaded (the session flushes only the attributes
\* whose value changed).
Assigned(loaded, update) ==
    [f \in {g \in ConfigFields : update[g] # None /\ update[g][1] # loaded[g]} |->
       update[f][1]]

\* PUT /config, main.py 139-149: the UPDATE the commit sends for the record
\* the query loaded.
update_config_commit(db_configs, loaded, update) ==
    LET written == Assigned(loaded, update)
    IN [configs |-> [i \in 1..Len(db_configs) |->
                       IF db_configs[i].id = loaded.id
                         THEN [k \in DOMAIN db_configs[i] |->
                                 IF k \in DOMAIN written THEN written[k] ELSE db_configs[i][k]]
                         ELSE db_configs[i]],
        step |-> Pending("refresh", [id |-> loaded.id], <<>>)]

(***************************************************************************)
(* Text: Python's str.split, str.strip, str.lower and str.join on          *)
(* sequences of one-character strings                                      *)
(***************************************************************************)
\* The characters str.strip() removes: those str.isspace() holds for.  A
\* character that has no escape in a TLA+ string is written by its Python
\* escape and stands for that one character.
Whitespace ==
    {" ", "\t", "\n", "\r", "\f", "\\x0b", "\\x1c", "\\x1d", "\\x1e", "\\x1f",
     "\\x85", "\\xa0", "\\u1680", "\\u2000", "\\u2001", "\\u2002", "\\u2003",
     "\\u2004", "\\u2005", "\\u2006", "\\u2007", "\\u2008", "\\u2009", "\\u200a",
     "\\u2028", "\\u2029", "\\u202f", "\\u205f", "\\u3000"}

Uppercase ==
    <<"A", "B", "C", "D", "E", "F", "G", "H", "I", "J", "K", "L", "M",
      "N", "O", "P", "Q", "R", "S", "T", "U", "V", "W", "X", "Y", "Z">>

Lowercase ==
    <<"a", "b", "c", "d", "e", "f", "g", "h", "i", "j", "k", "l", "m",
      "n", "o", "p", "q", "r", "s", "t", "u", "v", "w", "x", "y", "z">>

\* str.lower() on one character of the texts in play, which are ASCII apart
\* from their whitespace.
ToLower ==
    [c \in {Uppercase[i] : i \in 1..26} |->
       Lowercase[CHOOSE i \in 1..26 : Uppercase[i] = c]]

Lower(s) == [i \in 1..Len(s) |-> IF s[i] \in DOMAIN ToLower THEN ToLower[s[i]] ELSE s[i]]

RECURSIVE LStrip(_)
LStrip(s) == IF s # <<>> /\ Head(s) \in Whitespace THEN LStrip(Tail(s)) ELSE s

RECURSIVE RStrip(_)
RStrip(s) ==
    IF s # <<>> /\ s[Len(s)] \in Whitespace THEN RStrip(SubSeq(s, 1, Len(s) - 1)) ELSE s

Strip(s) == RStrip(LStrip(s))

\* s.split(sep) for a one-character sep: the pieces between the separators,
\* empty pieces included.
RECURSIVE Split(_, _)
Split(s, sep) ==
    IF \A i \in 1..Len(s) : s[i] # sep
      THEN <<s>>
      ELSE LET i == CHOOSE k \in 1..Len(s) : s[k] = sep /\ \A j \in 1..(k - 1) : s[j] # sep
           IN <<SubSeq(s, 1, i - 1)>> \o Split(SubSeq(s, i + 1, Len(s)), sep)

\* sep.join(parts)
RECURSIVE Join(_, _)
Join(sep, parts) ==
    IF parts = <<>> THEN <<>>
    ELSE IF Len(parts) = 1 THEN parts[1]
    ELSE parts[1] \o sep \o Join(sep, Tail(parts))

\* [f(x) for x in xs if keep(x)] for f = strip and keep = "strip(x) is non-empty"
RECURSIVE StrippedNonEmpty(_)
StrippedNonEmpty(parts) ==
    IF parts = <<>> THEN <<>>
    ELSE (IF Strip(Head(parts)) # <<>> THEN <<Strip(Head(parts))>> ELSE <<>>)
         \o StrippedNonEmpty(Tail(parts))

ENHANCED == <<"e", "n", "h", "a", "n", "c", "e", "d">>

(***************************************************************************)
(* app/utils.py: transform_work_item                                       *)
(***************************************************************************)
EmptyDict == <<>>

\* d.get(k): None when the key is absent
Get(d, k) == IF k \in DOMAIN d THEN Some(d[k]) ELSE None

\* d.get(k, {}) for a nested dict
GetDict(d, k) == IF k \in DOMAIN d THEN d[k] ELSE EmptyDict

transform_work_item(raw_item) ==
    LET fields == GetDict(raw_item, "fields")
        assigned_to == GetDict(fields, "System.AssignedTo")
    IN [id |-> Get(raw_item, "id"),
        title |-> Get(fields, "System.Title"),
        description |-> Get(fields, "System.Description"),
        state |-> Get(fields, "System.State"),
        createdDate |-> Get(fields, "System.CreatedDate"),
        assignedTo |-> [displayName |-> Get(assigned_to, "displayName"),
                        uniqueName |-> Get(assigned_to, "uniqueName"),
                        avatarUrl |-> Get(GetDict(GetDict(assigned_to, "_links"), "avatar"), "href")],
        url |-> Get(raw_item, "url")]

(***************************************************************************)
(* app/azure_devops.py                                                     *)
(***************************************************************************)
\* base64 of ":" + token, kept symbolic: it is decoded by nobody here.
Base64(text) == [b64 |-> text]

\* x_pat is the X-Azure-DevOps-PAT header as the endpoint reads it.
get_auth_headers(x_pat) ==
    [Authorization |-> <<"Basic", Base64(<<":", IF Truthy(x_pat) THEN x_pat[1] ELSE AZURE_DEVOPS_PAT>>)>>]

\* headers["Content-Type"] = "application/json-patch+json"
WithContentType(headers) ==
    [k \in DOMAIN headers \cup {"Content-Type"} |->
       IF k = "Content-Type" THEN "application/json-patch+json" ELSE headers[k]]

get_base_url(config) ==
    <<"https://dev.azure.com", config.azure_devops_org, config.azure_devops_project>>

(***************************************************************************)
(* The upstream service, as far as the gateway's calls show it             *)
(***************************************************************************)
UpStatuses == {200, 404}

\* The statuses the creation endpoint is answered with.
CreateStatuses == {200, 201, 404}

\* The body upstream sends with a status.
UpstreamText(status) ==
    CASE status = 404 -> "upstream: 404 body"
      [] status = 201 -> "upstream: 201 body"
      [] OTHER -> "upstream: 200 body"

ItemUrl(id) == <<"upstream-item", id>>

RawItem(items, id) == [id |-> id, fields |-> items[id], url |-> ItemUrl(id)]

\* The ids matching a query when n items match, most recently changed first.
Matching(n) == [i \in 1..n |-> n + 1 - i]

\* The WIQL service honours $top.
UpstreamWiql(top, n) ==
    [workItems |-> [i \in 1..Min(top, n) |-> [id |-> Matching(n)[i], url |-> ItemUrl(Matching(n)[i])]]]

UpstreamItems(items, ids) == [value |-> [i \in 1..Len(ids) |-> RawItem(items, ids[i])]]

KeyOfPath ==
    [p \in {"/fields/System.Title", "/fields/System.Description", "/fields/System.Tags"} |->
       CASE p = "/fields/System.Title" -> "System.Title"
         [] p = "/fields/System.Description" -> "System.Description"
         [] OTHER -> "System.Tags"]

\* Upstream applies a JSON Patch document to a field bag, operation by operation.
RECURSIVE ApplyPatch(_, _)
ApplyPatch(bag, payload) ==
    IF payload = <<>> THEN bag
    ELSE LET o == Head(payload)
             key == KeyOfPath[o.path]
         IN ApplyPatch([k \in DOMAIN bag \cup {key} |-> IF k = key THEN o.value ELSE bag[k]],
                       Tail(payload))

Call(method, url, headers, json, status, result) ==
    [method |-> method, url |-> url, headers |-> headers, json |-> json,
     status |-> status, result |-> result]

(***************************************************************************)
(* Routing: Starlette tries the routes in the order main.py declares them  *)
(* and takes the first whose method and path match; "{...}" matches any    *)
(* one segment.                                                            *)
(***************************************************************************)
Routes ==
    << [method |-> "POST",  path |-> <<"register">>,                   endpoint |-> "register"],
       [method |-> "GET",   path |-> <<"config">>,                     endpoint |-> "get_config"],
       [method |-> "PUT",   path |-> <<"config">>,                     endpoint |-> "update_config"],
       [method |-> "GET",   path |-> <<"workitems">>,                  endpoint |-> "list_work_items"],
       [method |-> "GET",   path |-> <<"workitems", "{work_item_id}">>, endpoint |-> "get_work_item_info"],
       [method |-> "GET",   path |-> <<"workitems", "batch">>,         endpoint |-> "get_work_items_batch"],
       [method |-> "POST",  path |-> <<"workitems">>,                  endpoint |-> "create_work_item"],
       [method |-> "PATCH", path |-> <<"workitems", "{work_item_id}">>, endpoint |-> "update_work_item"] >>

IsParam(segment) == segment = "{work_item_id}"

Matches(route, method, path) ==
    /\ route.method = method
    /\ Len(route.path) = Len(path)
    /\ \A i \in 1..Len(path) : IsParam(route.path[i]) \/ route.path[i] = path[i]

\* The endpoint a request is dispatched to.
Route(method, path) ==
    LET hits == {i \in 1..Len(Routes) : Matches(Routes[i], method, path)}
    IN IF hits = {} THEN "not_found"
       ELSE Routes[CHOOSE i \in hits : \A j \in hits : i <= j].endpoint

\* The path segments that parse as an int (work_item_id: int = Path(...)).
IntOfSegment == [s \in {"1"} |-> 1]

(***************************************************************************)
(* app/main.py: the work-item endpoints, one operator per upstream call.   *)
(* Each takes the locals of the request, what upstream holds and how it    *)
(* answers, and gives the step.                                            *)
(***************************************************************************)
\* A slice that keeps the first `limit` ids whatever the offset.
PageSliceFromStart(ids, offset, limit) == SubSeq(ids, 1, Min(Len(ids), limit))

\* work_item_ids[offset:offset+limit]
PageSlice(ids, offset, limit) == SubSeq(ids, offset + 1, Min(Len(ids), offset + limit))

WiqlQuery(state, title) ==
    <<"SELECT [System.Id], [System.Title], [System.State] FROM WorkItems WHERE [System.TeamProject] = @project">>
    \o (IF Truthy(state) THEN <<" AND [System.State] = '", state[1], "'">> ELSE <<>>)
    \o (IF Truthy(title) THEN <<" AND [System.Title] CONTAINS '", title[1], "'">> ELSE <<>>)
    \o <<" ORDER BY [System.ChangedDate] DESC">>

\* GET /workitems up to the WIQL call (main.py 175-219); n items match.
list_work_items_wiql(user_config, x_pat, state, title, limit, offset, n, wiql_status) ==
    LET org == user_config.azure_devops_org
        project == user_config.azure_devops_project
        api_version == user_config.api_version
        wiql_url == [scope |-> <<org, project>>, api |-> "wit/wiql",
                     top |-> limit, api_version |-> api_version]
        headers == get_auth_headers(x_pat)
        wiql_result == UpstreamWiql(limit, n)
        wiql_call == Call("POST", wiql_url, headers, [query |-> WiqlQuery(state, title)],
                          wiql_status,
                          IF wiql_status = 200 THEN wiql_result
                                               ELSE [text |-> UpstreamText(wiql_status)])
        all_ids == [i \in 1..Len(wiql_result.workItems) |-> wiql_result.workItems[i].id]
        work_item_ids == PageSlice(all_ids, offset, limit)
    IN IF wiql_status # 200
         THEN Done(wiql_status, [detail |-> UpstreamText(wiql_status)], <<wiql_call>>)
       ELSE IF work_item_ids # <<>>
         THEN Pending("details", [user_config |-> user_config, work_item_ids |-> work_item_ids],
                      <<wiql_call>>)
       ELSE Done(200, [workItems |-> <<>>], <<wiql_call>>)

\* GET /workitems, the details call (main.py 221-231).
list_work_items_details(user_config, x_pat, items, work_item_ids, details_status) ==
    LET org == user_config.azure_devops_org
        project == user_config.azure_devops_project
        api_version == user_config.api_version
        headers == get_auth_headers(x_pat)
        details_url == [scope |-> <<org, project>>, api |-> "wit/workitems",
                        ids |-> work_item_ids, api_version |-> api_version]
        details == UpstreamItems(items, work_item_ids)
        details_call == Call("GET", details_url, headers, None, details_status,
                             IF details_status = 200 THEN details
                                                     ELSE [text |-> UpstreamText(details_status)])
    IN IF details_status # 200
         THEN Done(details_status, [detail |-> UpstreamText(details_status)], <<details_call>>)
         ELSE Done(200,
                   [workItems |-> [i \in 1..Len(details.value) |->
                                     transform_work_item(details.value[i])]],
                   <<details_call>>)

WebUrl(org, project, id) == <<"https://dev.azure.com", org, project, "_workitems", "edit", id>>

\* raw item plus work_item["webUrl"]
WithWebUrl(raw_item, web_url) ==
    [k \in DOMAIN raw_item \cup {"webUrl"} |-> IF k = "webUrl" THEN web_url ELSE raw_item[k]]

\* GET /workitems/{work_item_id} after get_user_config (main.py 263-276).
get_work_item_info(user_config, x_pat, items, work_item_id, status) ==
    LET org == user_config.azure_devops_org
        project == user_config.azure_devops_project
        api_version == user_config.api_version
        headers == get_auth_headers(x_pat)
        url == [scope |-> <<org>>, api |-> "wit/workitems", id |-> work_item_id,
                api_version |-> api_version]
        work_item == RawItem(items, work_item_id)
        call == Call("GET", url, headers, None, status,
                     IF status = 200 THEN work_item ELSE [text |-> UpstreamText(status)])
    IN IF status # 200
         THEN Done(status, [detail |-> UpstreamText(status)], <<call>>)
         ELSE Done(200, WithWebUrl(work_item, WebUrl(org, project, work_item_id)), <<call>>)

\* The ids upstream understands in an ids= parameter.
DigitOf == [c \in {"1", "2", "3"} |-> CASE c = "1" -> 1 [] c = "2" -> 2 [] OTHER -> 3]

RECURSIVE IdsOf(_)
IdsOf(texts) ==
    IF texts = <<>> THEN <<>>
    ELSE (IF Len(Head(texts)) = 1 /\ Head(texts)[1] \in DOMAIN DigitOf
            THEN <<DigitOf[Head(texts)[1]]>> ELSE <<>>)
         \o IdsOf(Tail(texts))

\* The body of get_work_items_batch after get_user_config (main.py 290-308).
get_work_items_batch(user_config, x_pat, items, ids, status) ==
    LET org == user_config.azure_devops_org
        project == user_config.azure_devops_project
        api_version == user_config.api_version
        headers == get_auth_headers(x_pat)
        parts == Split(ids, ",")
        work_item_ids == [i \in 1..Len(parts) |-> Strip(parts[i])]
        batch_url == [scope |-> <<org>>, api |-> "wit/workitems",
                      ids |-> Join(<<",">>, work_item_ids), api_version |-> api_version]
        result == UpstreamItems(items, IdsOf(work_item_ids))
        call == Call("GET", batch_url, headers, None, status,
                     IF status = 200 THEN result ELSE [text |-> UpstreamText(status)])
    IN IF status # 200
         THEN Done(status, [detail |-> UpstreamText(status)], <<call>>)
         ELSE Done(200,
                   [workItems |-> [i \in 1..Len(result.value) |->
                                     WithWebUrl(result.value[i],
                                                WebUrl(org, project, result.value[i].id))]],
                   <<call>>)

\* The id upstream gives a created item; it lies outside the items the
\* requests of the model address, which is all that workitems holds.
NewItemId == 100

\* POST /workitems after get_user_config (main.py 318-332).
create_work_item(user_config, x_pat, items, item, status) ==
    LET api_version == user_config.api_version
        url == [scope |-> get_base_url(user_config), api |-> "wit/workitems/$Task",
                api_version |-> api_version]
        payload == <<[op |-> "add", path |-> "/fields/System.Title", value |-> item.title],
                     [op |-> "add", path |-> "/fields/System.Description", value |-> item.description]>>
        headers == WithContentType(get_auth_headers(x_pat))
        created == [id |-> NewItemId, fields |-> ApplyPatch(EmptyDict, payload),
                    url |-> ItemUrl(NewItemId)]
        call == Call("PATCH", url, headers, payload, status,
                     IF status \in {200, 201} THEN created ELSE [text |-> UpstreamText(status)])
    IN IF status \notin {200, 201}
         THEN Done(status, [detail |-> UpstreamText(status)], <<call>>)
         ELSE Done(200, created, <<call>>)

\* [tag.strip() for tag in existing_tags.split(";") if tag.strip()] if existing_tags else []
TagsList(existing_tags) ==
    IF existing_tags # <<>> THEN StrippedNonEmpty(Split(existing_tags, ";")) ELSE <<>>

\* The membership test without .lower()
HasEnhancedCaseSensitive(tags_list) == \E i \in 1..Len(tags_list) : tags_list[i] = ENHANCED

\* "enhanced" in [tag.lower() for tag in tags_list]
HasEnhanced(tags_list) == \E i \in 1..Len(tags_list) : Lower(tags_list[i]) = ENHANCED

\* Step 2 with every operation an unconditional "add".
PatchPayloadAlwaysAdd(fields, update) ==
    LET existing_tags == IF "System.Tags" \in DOMAIN fields THEN fields["System.Tags"] ELSE <<>>
        tags_list == TagsList(existing_tags)
    IN (IF Truthy(update.title)
          THEN <<[op |-> "add", path |-> "/fields/System.Title", value |-> update.title[1]]>>
          ELSE <<>>)
       \o (IF Truthy(update.description)
             THEN <<[op |-> "add", path |-> "/fields/System.Description",
                     value |-> update.description[1]]>>
             ELSE <<>>)
       \o (IF ~HasEnhanced(tags_list)
             THEN <<[op |-> "add", path |-> "/fields/System.Tags",
                     value |-> Join(<<";", " ">>, Append(tags_list, ENHANCED))]>>
             ELSE <<>>)

\* Step 2 of update_work_item: the patch payload for the fetched field bag.
PatchPayload(fields, update) ==
    LET existing_tags == IF "System.Tags" \in DOMAIN fields THEN fields["System.Tags"] ELSE <<>>
        tags_list == TagsList(existing_tags)
    IN (IF Truthy(update.title)
          THEN <<[op |-> IF "System.Title" \in DOMAIN fields THEN "replace" ELSE "add",
                  path |-> "/fields/System.Title", value |-> update.title[1]]>>
          ELSE <<>>)
       \o (IF Truthy(update.description)
             THEN <<[op |-> IF "System.Description" \in DOMAIN fields THEN "replace" ELSE "add",
                     path |-> "/fields/System.Description", value |-> update.description[1]]>>
             ELSE <<>>)
       \o (IF ~HasEnhanced(tags_list)
             THEN <<[op |-> IF existing_tags # <<>> THEN "replace" ELSE "add",
                     path |-> "/fields/System.Tags",
                     value |-> Join(<<";", " ">>, Append(tags_list, ENHANCED))]>>
             ELSE <<>>)

\* The URL of steps 1 and 3 of update_work_item.
UpdateUrl(user_config, work_item_id) ==
    [scope |-> <<user_config.azure_devops_org>>, api |-> "wit/workitems",
     id |-> work_item_id, api_version |-> user_config.api_version]

\* An update_work_item that goes on to its PATCH whatever the existence GET
\* answered.
update_work_item_get_unchecked(user_config, x_pat, items, work_item_id, update, get_status) ==
    LET get_call == Call("GET", UpdateUrl(user_config, work_item_id), get_auth_headers(x_pat),
                         None, get_status,
                         IF get_status = 200 THEN RawItem(items, work_item_id)
                                             ELSE [text |-> UpstreamText(get_status)])
        patch_payload == PatchPayload(items[work_item_id], update)
    IN IF patch_payload = <<>>
         THEN Done(400, [detail |-> "No fields provided for update."], <<get_call>>)
         ELSE Pending("patch", [user_config |-> user_config, patch_payload |-> patch_payload],
                      <<get_call>>)

\* PATCH /workitems/{work_item_id}, steps 1 and 2 (main.py 354-404): the
\* existence GET and the payload built from what it returned.
update_work_item_get(user_config, x_pat, items, work_item_id, update, get_status) ==
    LET get_url == UpdateUrl(user_config, work_item_id)
        headers == get_auth_headers(x_pat)
        current_work_item == RawItem(items, work_item_id)
        get_call == Call("GET", get_url, headers, None, get_status,
                         IF get_status = 200 THEN current_work_item
                                             ELSE [text |-> UpstreamText(get_status)])
        fields == GetDict(current_work_item, "fields")
        patch_payload == PatchPayload(fields, update)
    IN IF get_status # 200
         THEN Done(get_status, [detail |-> "Work item not found or unavailable"], <<get_call>>)
       ELSE IF patch_payload = <<>>
         THEN Done(400, [detail |-> "No fields provided for update."], <<get_call>>)
       ELSE Pending("patch", [user_config |-> user_config, patch_payload |-> patch_payload],
                    <<get_call>>)

\* PATCH /workitems/{work_item_id}, step 3 (main.py 406-413): the PATCH, which
\* upstream applies to the item as it is by then.
update_work_item_patch(user_config, x_pat, items, work_item_id, patch_payload, patch_status) ==
    LET update_url == UpdateUrl(user_config, work_item_id)
        headers == WithContentType(get_auth_headers(x_pat))
        patched == [items EXCEPT ![work_item_id] = ApplyPatch(@, patch_payload)]
        patch_call == Call("PATCH", update_url, headers, patch_payload, patch_status,
                           IF patch_status = 200 THEN RawItem(patched, work_item_id)
                                                 ELSE [text |-> UpstreamText(patch_status)])
    IN IF patch_status # 200
         THEN [workitems |-> items,
               step |-> Done(patch_status, [detail |-> UpstreamText(patch_status)],
                             <<patch_call>>)]
         ELSE [workitems |-> patched,
               step |-> Done(200, RawItem(patched, work_item_id), <<patch_call>>)]


\* What FastAPI answers when the parameters of a request do not validate:
\* 422 with the list of the errors, those of the dependencies first.
Unprocessable(errors) == [status |-> 422, body |-> [detail |-> errors]]

(***************************************************************************)
(* Requests in flight.  reqs[s] is the request worker s is serving or the  *)
(* last one it served.                                                     *)
(***************************************************************************)
Idle ==
    [op |-> "none", path |-> <<>>, pc |-> "idle", user |-> 0, x_pat |-> None,
     args |-> <<>>, loc |-> NoLocals, calls |-> <<>>, status |-> 0, body |-> NoBody]

Free(s) == reqs[s].pc \in {"idle", "done"}

At(s, op, pc) == reqs[s].op = op /\ reqs[s].pc = pc

\* The endpoints that authenticate with get_api_key.
AuthenticatedOps ==
    {"get_config", "update_config", "list_work_items", "get_work_item_info",
     "get_work_items_batch", "create_work_item", "update_work_item"}

WorkItemOps ==
    {"list_work_items", "get_work_item_info", "get_work_items_batch",
     "create_work_item", "update_work_item"}

\* Where the body of an endpoint starts: the configuration endpoints with
\* their query, the work-item endpoints with get_user_config.
FirstPc(op) == IF op \in {"get_config", "update_config"} THEN "query" ELSE "config"

\* Where a work-item endpoint goes on after get_user_config.
BodyPc(op) ==
    CASE op = "list_work_items" -> "wiql"
      [] op = "create_work_item" -> "patch"
      [] OTHER -> "get"

\* Worker s takes a request as far as `step`.
Begin(s, op, path, user, x_pat, args, step) ==
    reqs' = [reqs EXCEPT ![s] =
               [op |-> op, path |-> path, pc |-> step.pc, user |-> user, x_pat |-> x_pat,
                args |-> args, loc |-> step.loc, calls |-> step.calls,
                status |-> step.status, body |-> step.body]]

\* The request of worker s takes a step.
Advance(s, step) ==
    reqs' = [reqs EXCEPT ![s] =
               [@ EXCEPT !.pc = step.pc, !.loc = step.loc, !.calls = @ \o step.calls,
                         !.status = step.status, !.body = step.body]]

\* POST /register (main.py 66-70).  The lookup and create_user both end
\* before anything is written, so the request is one step.
Register(s, username, full_name, password, salt) ==
    /\ Free(s)
    /\ \E existing \in get_user_by_username(users, username) :
         LET created == create_user(users, username, full_name, password, salt)
             args == [username |-> username, full_name |-> full_name, password |-> password]
         IN IF existing # None
              THEN /\ Begin(s, "register", <<"register">>, 0, None, args,
                            Done(400, [detail |-> "Username already registered"], <<>>))
                   /\ UNCHANGED users
            ELSE IF Raised(created)
              THEN /\ Begin(s, "register", <<"register">>, 0, None, args,
                            Done(InternalServerError.status, InternalServerError.body, <<>>))
                   /\ UNCHANGED users
            ELSE /\ users' = created.value
                 /\ LET row == created.value[Len(created.value)]
                    IN Begin(s, "register", <<"register">>, 0, None, args,
                             Done(200,
                                  [id |-> row.id, username |-> row.username,
                                   full_name |-> row.full_name, disabled |-> row.disabled],
                                  <<>>))
    /\ UNCHANGED <<configs, workitems>>

\* The errors FastAPI collects for a request to an authenticated endpoint:
\* the required header of get_api_key, then the endpoint's own parameters.
ValidationErrors(op, path, header, args) ==
    (IF header = None THEN <<"missing: header X-Azure-DevOps-PAT">> ELSE <<>>)
    \o (IF op \in {"get_work_item_info", "update_work_item"} /\ path[2] \notin DOMAIN IntOfSegment
          THEN <<"int_parsing: path work_item_id">> ELSE <<>>)

\* A request to an authenticated route, as the application serves it: the
\* route is chosen, get_api_key runs when its header validates, then the
\* endpoint's parameters are validated and the endpoint is entered.
HttpRequest(s, method, path, header, args) ==
    LET op == Route(method, path)
        errors == ValidationErrors(op, path, header, args)
    IN /\ Free(s)
       /\ op \in AuthenticatedOps
       /\ IF header = None
            THEN Begin(s, op, path, 0, header, args,
                       Done(Unprocessable(errors).status, Unprocessable(errors).body, <<>>))
            ELSE \E found \in get_user_by_pat(users, header[1]) :
                   LET auth == get_api_key(found)
                   IN IF auth.early # None
                        THEN Begin(s, op, path, 0, header, args,
                                   Done(auth.early[1].status, auth.early[1].body, <<>>))
                      ELSE IF errors # <<>>
                        THEN Begin(s, op, path, auth.user[1].id, header, args,
                                   Done(Unprocessable(errors).status,
                                        Unprocessable(errors).body, <<>>))
                      ELSE Begin(s, op, path, auth.user[1].id, header,
                                 IF op \in {"get_work_item_info", "update_work_item"}
                                   THEN [work_item_id |-> IntOfSegment[path[2]]] @@ args
                                   ELSE args,
                                 Pending(FirstPc(op), NoLocals, <<>>))
       /\ UNCHANGED <<users, configs, workitems>>

\* An endpoint function is entered with its dependencies resolved:
\* current_user is a row of the users table and x_pat, the header
\* get_api_key looked the user up by, verifies against the row's hash.
Enter(s, request, current_user, x_pat) ==
    /\ Free(s)
    /\ current_user \in Rows(users)
    /\ verify_password(x_pat, current_user.hashed_password)
    /\ Begin(s, request.op, <<>>, current_user.id, Some(x_pat), request.args,
             Pending(FirstPc(request.op), NoLocals, <<>>))
    /\ UNCHANGED <<users, configs, workitems>>

\* GET /config: the query.
GetConfigQuery(s) ==
    /\ At(s, "get_config", "query")
    /\ \E record \in ConfigOf(configs, reqs[s].user) : Advance(s, get_config_query(record))
    /\ UNCHANGED <<users, configs, workitems>>

\* GET /config: add and commit of the default record.
GetConfigCreate(s) ==
    /\ At(s, "get_config", "create")
    /\ LET r == get_config_create(configs, reqs[s].user)
       IN /\ configs' = r.configs
          /\ Advance(s, r.step)
    /\ UNCHANGED <<users, workitems>>

\* PUT /config: the query and the test for a complete body.
UpdateConfigQuery(s) ==
    /\ At(s, "update_config", "query")
    /\ \E record \in ConfigOf(configs, reqs[s].user) :
         Advance(s, update_config_query(record, reqs[s].args))
    /\ UNCHANGED <<users, configs, workitems>>

\* PUT /config: add and commit of the new record.
UpdateConfigCreate(s) ==
    /\ At(s, "update_config", "create")
    /\ LET r == update_config_create(configs, reqs[s].user, reqs[s].args)
       IN /\ configs' = r.configs
          /\ Advance(s, r.step)
    /\ UNCHANGED <<users, workitems>>

\* PUT /config: the assignments and the commit.
UpdateConfigCommit(s) ==
    /\ At(s, "update_config", "commit")
    /\ LET r == update_config_commit(configs, reqs[s].loc.loaded, reqs[s].args)
       IN /\ configs' = r.configs
          /\ Advance(s, r.step)
    /\ UNCHANGED <<users, workitems>>

\* GET /config and PUT /config: db.refresh(config_record) and the return.
ConfigRefresh(s) ==
    /\ reqs[s].pc = "refresh"
    /\ Advance(s, config_refresh(configs, reqs[s].loc.id))
    /\ UNCHANGED <<users, configs, workitems>>

\* The work-item endpoints: user_config = get_user_config(current_user, db).
UserConfig(s) ==
    /\ reqs[s].pc = "config"
    /\ \E record \in ConfigOf(configs, reqs[s].user) :
         LET user_config == get_user_config(record)
         IN IF user_config = None
              THEN Advance(s, Done(NoConfigFound.status, NoConfigFound.body, <<>>))
              ELSE Advance(s, Pending(BodyPc(reqs[s].op), [user_config |-> user_config[1]], <<>>))
    /\ UNCHANGED <<users, configs, workitems>>

\* GET /workitems: the WIQL call; n items match upstream, which answers with
\* wiql_status.
ListWiql(s, n, wiql_status) ==
    /\ At(s, "list_work_items", "wiql")
    /\ Advance(s, list_work_items_wiql(reqs[s].loc.user_config, reqs[s].x_pat,
                                       reqs[s].args.state, reqs[s].args.title,
                                       reqs[s].args.limit, reqs[s].args.offset,
                                       n, wiql_status))
    /\ UNCHANGED <<users, configs, workitems>>

\* GET /workitems: the details call.
ListDetails(s, details_status) ==
    /\ At(s, "list_work_items", "details")
    /\ Advance(s, list_work_items_details(reqs[s].loc.user_config, reqs[s].x_pat, workitems,
                                          reqs[s].loc.work_item_ids, details_status))
    /\ UNCHANGED <<users, configs, workitems>>

\* get_work_item_info: its one call.
GetItem(s, status) ==
    /\ At(s, "get_work_item_info", "get")
    /\ Advance(s, get_work_item_info(reqs[s].loc.user_config, reqs[s].x_pat, workitems,
                                     reqs[s].args.work_item_id, status))
    /\ UNCHANGED <<users, configs, workitems>>

\* get_work_items_batch: its one call.
BatchGet(s, status) ==
    /\ At(s, "get_work_items_batch", "get")
    /\ Advance(s, get_work_items_batch(reqs[s].loc.user_config, reqs[s].x_pat, workitems,
                                       reqs[s].args.ids, status))
    /\ UNCHANGED <<users, configs, workitems>>

\* create_work_item: its one call.
CreatePatch(s, status) ==
    /\ At(s, "create_work_item", "patch")
    /\ Advance(s, create_work_item(reqs[s].loc.user_config, reqs[s].x_pat, workitems,
                                   reqs[s].args, status))
    /\ UNCHANGED <<users, configs, workitems>>

\* update_work_item: the existence GET and the payload.
UpdateGet(s, get_status) ==
    /\ At(s, "update_work_item", "get")
    /\ Advance(s, update_work_item_get(reqs[s].loc.user_config, reqs[s].x_pat, workitems,
                                       reqs[s].args.work_item_id,
                                       [title |-> reqs[s].args.title,
                                        description |-> reqs[s].args.description],
                                       get_status))
    /\ UNCHANGED <<users, configs, workitems>>

\* update_work_item: the PATCH.
UpdatePatch(s, patch_status) ==
    /\ At(s, "update_work_item", "patch")
    /\ LET r == update_work_item_patch(reqs[s].loc.user_config, reqs[s].x_pat, workitems,
                                       reqs[s].args.work_item_id,
                                       reqs[s].loc.patch_payload, patch_status)
       IN /\ workitems' = r.workitems
          /\ Advance(s, r.step)
    /\ UNCHANGED <<users, configs>>


(***************************************************************************)
(* Inputs                                                                  *)
(***************************************************************************)
StateFilters == {None, Some("Active")}
TitleFilters == {None, Some("fix")}
IdLists == {<<"1", ",", " ", "2">>}
NewItems == {[title |-> "T1", description |-> "D1"]}
ItemUpdates == [title : {None, Some(""), Some("T1")}, description : {None, Some("D1")}]
UpdatableIds == {1}

\* The tag strings work item 1 may start with: "", "foo", "foo; enhanced",
\* "Enhanced", " ENHANCED ;foo", "enhanced\r", "\xa0Enhanced\u2003;Foo",
\* "\t\x0b;\x1c" (whitespace entries only) and "en hanced".
InitialTags ==
    { <<>>,
      <<"f", "o", "o">>,
      <<"f", "o", "o", ";", " ", "e", "n", "h", "a", "n", "c", "e", "d">>,
      <<"E", "n", "h", "a", "n", "c", "e", "d">>,
      <<" ", "E", "N", "H", "A", "N", "C", "E", "D", " ", ";", "f", "o", "o">>,
      <<"e", "n", "h", "a", "n", "c", "e", "d", "\r">>,
      <<"\\xa0", "E", "n", "h", "a", "n", "c", "e", "d", "\\u2003", ";", "F", "o", "o">>,
      <<"\t", "\\x0b", ";", "\\x1c">>,
      <<"e", "n", " ", "h", "a", "n", "c", "e", "d">> }

\* A field bag with the given optional title, description and tags.
Bag(title, description, tags) ==
    LET keys == (IF title # None THEN {"System.Title"} ELSE {})
                \cup (IF description # None THEN {"System.Description"} ELSE {})
                \cup (IF tags # None THEN {"System.Tags"} ELSE {})
    IN [k \in keys |-> CASE k = "System.Title" -> title[1]
                         [] k = "System.Description" -> description[1]
                         [] OTHER -> tags[1]]

InitialBags ==
    { Bag(t, d, g) : t \in {None, Some("T0")}, d \in {None, Some("D0")},
                     g \in {None} \cup {Some(x) : x \in InitialTags} }

\* Upstream holds work items 1..MaxMatches; the first is the one the requests
\* address, the others stay as they are.
ItemsWith(bag) == [i \in 1..MaxMatches |-> IF i = 1 THEN bag ELSE Bag(Some("T0"), None, None)]

InitialItems == ItemsWith(Bag(Some("T0"), None, None))

\* A row of the users table (models.py 10-18).
UserRow(id, username, password, salt) ==
    [id |-> id, username |-> username, full_name |-> None,
     hashed_password |-> get_password_hash(password, salt),
     disabled |-> FALSE, created_at |-> "then"]

\* A users table holding alice, whose secret is "p", and bob, whose secret
\* is the empty string.
ExistingUsers == <<UserRow(1, "alice", "p", "s1"), UserRow(2, "bob", "", "s2")>>

\* The bodies PUT /config is sent.
UpdateAll ==
    [azure_devops_org |-> Some("org-x"), azure_devops_project |-> Some("proj-x"),
     azure_devops_pat |-> Some("pat-x"), api_version |-> Some("6.0")]

UpdateVersion ==
    [azure_devops_org |-> None, azure_devops_project |-> None,
     azure_devops_pat |-> None, api_version |-> Some("7.0")]

UpdateOrgVersion ==
    [azure_devops_org |-> Some("org-x"), azure_devops_project |-> None,
     azure_devops_pat |-> None, api_version |-> Some("7.0")]

UpdateOtherOrgVersion ==
    [azure_devops_org |-> Some("org-y"), azure_devops_project |-> None,
     azure_devops_pat |-> None, api_version |-> Some("8.0")]

ConfigUpdates == {UpdateAll, UpdateVersion, UpdateOrgVersion, UpdateOtherOrgVersion}

NoArgs == <<>>

Request(op, args) == [op |-> op, args |-> args]

GetConfigRequest == Request("get_config", NoArgs)

UpdateConfigRequests == {Request("update_config", update) : update \in ConfigUpdates}

ListRequests ==
    {Request("list_work_items",
             [state |-> state, title |-> title, limit |-> limit, offset |-> offset]) :
       state \in StateFilters, title \in TitleFilters,
       limit \in 1..MaxLimit, offset \in 0..MaxOffset}

UpdateItemRequests ==
    {Request("update_work_item",
             [work_item_id |-> id, title |-> update.title, description |-> update.description]) :
       id \in UpdatableIds, update \in ItemUpdates}

\* One request of every work-item endpoint.
WorkRequests ==
    {Request("list_work_items", [state |-> None, title |-> None, limit |-> 2, offset |-> 0]),
     Request("get_work_item_info", [work_item_id |-> 1]),
     Request("create_work_item", [title |-> "T1", description |-> "D1"]),
     Request("update_work_item", [work_item_id |-> 1, title |-> Some("T1"), description |-> None])}
    \cup {Request("get_work_items_batch", [ids |-> ids]) : ids \in IdLists}

\* The requests clients send to the authenticated routes.
HttpRequests ==
    { [method |-> "GET", path |-> <<"config">>, args |-> NoArgs],
      [method |-> "PUT", path |-> <<"config">>, args |-> UpdateAll],
      [method |-> "GET", path |-> <<"workitems">>,
       args |-> [state |-> None, title |-> None, limit |-> 2, offset |-> 0]],
      [method |-> "GET", path |-> <<"workitems", "1">>, args |-> NoArgs],
      [method |-> "GET", path |-> <<"workitems", "batch">>,
       args |-> [ids |-> <<"1", ",", " ", "2">>]],
      [method |-> "POST", path |-> <<"workitems">>, args |-> [title |-> "T1", description |-> "D1"]],
      [method |-> "PATCH", path |-> <<"workitems", "1">>,
       args |-> [title |-> Some("T1"), description |-> None]] }

\* The X-Azure-DevOps-PAT header of a request: absent or one of the tokens.
Headers == {None} \cup {Some(t) : t \in Tokens}

\* A configuration table in which alice has the default record.
AliceConfigured ==
    <<NewConfig(<<>>, 1, AZURE_DEVOPS_ORG, AZURE_DEVOPS_PROJECT, AZURE_DEVOPS_PAT, API_VERSION)>>

(***************************************************************************)
(* The application as clients reach it: registration and the authenticated *)
(* routes, from an empty users table or from one that holds two rows.      *)
(***************************************************************************)
InitHttp ==
    /\ users \in {<<>>, ExistingUsers}
    /\ configs = <<>>
    /\ workitems = InitialItems
    /\ reqs = [s \in Slots |-> Idle]

\* As models.py stands every one of these requests ends in its first step:
\* see create_user and get_user_by_pat.
NextHttp ==
    \/ \E s \in Slots, u \in Usernames, p \in Tokens, salt \in Salts : Register(s, u, None, p, salt)
    \/ \E s \in Slots, r \in HttpRequests, h \in Headers :
         HttpRequest(s, r.method, r.path, h, r.args)

SpecHttp == InitHttp /\ [][NextHttp]_vars

(***************************************************************************)
(* The endpoint functions, entered with a resolved current_user.  Over     *)
(* HTTP get_api_key raises before any of them is reached (see              *)
(* get_user_by_pat); these specifications follow what their code does once *)
(* it is.  Two workers serve requests, so requests overlap.               *)
(***************************************************************************)
InitEntered ==
    /\ users = ExistingUsers
    /\ configs = <<>>
    /\ workitems = InitialItems
    /\ reqs = [s \in Slots |-> Idle]

\* The configuration endpoints.
ConfigRequests == {GetConfigRequest} \cup UpdateConfigRequests

\* Worker w1 serves alice and bob, worker w2 alice.
ConfigUsers(s) == IF s = "w1" THEN Rows(ExistingUsers) ELSE {ExistingUsers[1]}

NextConfig ==
    \/ \E s \in Slots : \E r \in ConfigRequests, u \in ConfigUsers(s), t \in Tokens :
         Enter(s, r, u, t)
    \/ \E s \in Slots : GetConfigQuery(s)
    \/ \E s \in Slots : GetConfigCreate(s)
    \/ \E s \in Slots : UpdateConfigQuery(s)
    \/ \E s \in Slots : UpdateConfigCreate(s)
    \/ \E s \in Slots : UpdateConfigCommit(s)
    \/ \E s \in Slots : ConfigRefresh(s)

SpecConfig == InitEntered /\ [][NextConfig]_vars

\* Every work-item endpoint, with the configuration endpoints; alice and bob
\* each present the secret of their row.
EnteredRequests == WorkRequests \cup {GetConfigRequest, Request("update_config", UpdateAll)}

NextWork ==
    \/ \E s \in Slots, r \in EnteredRequests, u \in Rows(ExistingUsers), t \in Tokens :
         Enter(s, r, u, t)
    \/ \E s \in Slots : GetConfigQuery(s)
    \/ \E s \in Slots : GetConfigCreate(s)
    \/ \E s \in Slots : UpdateConfigQuery(s)
    \/ \E s \in Slots : UpdateConfigCreate(s)
    \/ \E s \in Slots : UpdateConfigCommit(s)
    \/ \E s \in Slots : ConfigRefresh(s)
    \/ \E s \in Slots : UserConfig(s)
    \/ \E s \in Slots, n \in {0, 2}, st \in UpStatuses : ListWiql(s, n, st)
    \/ \E s \in Slots, st \in UpStatuses : ListDetails(s, st)
    \/ \E s \in Slots, st \in UpStatuses : GetItem(s, st)
    \/ \E s \in Slots, st \in UpStatuses : BatchGet(s, st)
    \/ \E s \in Slots, st \in CreateStatuses : CreatePatch(s, st)
    \/ \E s \in Slots, st \in UpStatuses : UpdateGet(s, st)
    \/ \E s \in Slots, st \in UpStatuses : UpdatePatch(s, st)

SpecWork == InitEntered /\ [][NextWork]_vars

\* Listing over all its bounded inputs, by alice, who has the default
\* configuration record.
InitList ==
    /\ users = ExistingUsers
    /\ configs = AliceConfigured
    /\ workitems = InitialItems
    /\ reqs = [s \in Slots |-> Idle]

\* Worker w1 takes every listing request, worker w2 the same as far as the
\* other inputs vary, with the filters left out.
ListingRequests(s) ==
    IF s = "w1" THEN ListRequests
                ELSE {r \in ListRequests : r.args.state = None /\ r.args.title = None}

NextList ==
    \/ \E s \in Slots : \E r \in ListingRequests(s) : Enter(s, r, ExistingUsers[1], "p")
    \/ \E s \in Slots : UserConfig(s)
    \/ \E s \in Slots, n \in 0..MaxMatches, st \in UpStatuses : ListWiql(s, n, st)
    \/ \E s \in Slots, st \in UpStatuses : ListDetails(s, st)

SpecList == InitList /\ [][NextList]_vars

\* Updating work item 1, in any of its initial forms, by alice, who has the
\* default configuration record.
InitUpdate ==
    /\ users = ExistingUsers
    /\ configs = AliceConfigured
    /\ workitems \in {ItemsWith(bag) : bag \in InitialBags}
    /\ reqs = [s \in Slots |-> Idle]

NextUpdate ==
    \/ \E s \in Slots, r \in UpdateItemRequests : Enter(s, r, ExistingUsers[1], "p")
    \/ \E s \in Slots : UserConfig(s)
    \/ \E s \in Slots, st \in UpStatuses : UpdateGet(s, st)
    \/ \E s \in Slots, st \in UpStatuses : UpdatePatch(s, st)

SpecUpdate == InitUpdate /\ [][NextUpdate]_vars


(***************************************************************************)
(* Properties                                                              *)
(***************************************************************************)
Finished(s) == reqs[s].pc = "done"

\* The step taken is a step of the request of worker s.
Stepped(s) == reqs'[s].pc # reqs[s].pc

\* The configuration rows of user uid.
RowsOf(db_configs, uid) == {c \in Rows(db_configs) : c.user_id = uid}

DefaultView ==
    [azure_devops_org |-> "your-org", azure_devops_project |-> "your-project",
     api_version |-> "7.1-preview.7"]

DefaultRecord(id, uid) ==
    [id |-> id, user_id |-> uid, azure_devops_org |-> "your-org",
     azure_devops_project |-> "your-project", azure_devops_pat |-> "your-pat",
     api_version |-> "7.1-preview.7"]

\* C1: a registration under an unused username succeeds and stores the
\* account, and a request presenting the secret of an account is resolved to
\* that very account, for every account that has that secret.
C1_ResolveUserReturnsOwnAccount ==
    \A s \in Slots :
      Finished(s) =>
        /\ (reqs[s].op = "register" /\ reqs[s].status # 400) =>
             /\ reqs[s].status = 200
             /\ \E u \in Rows(users) :
                  /\ u.username = reqs[s].args.username
                  /\ verify_password(reqs[s].args.password, u.hashed_password)
        /\ (reqs[s].op \in AuthenticatedOps /\ reqs[s].x_pat # None) =>
             \A u \in Rows(users) :
               verify_password(reqs[s].x_pat[1], u.hashed_password) => reqs[s].user = u.id

\* C2: a request whose token is not authenticated gets the same response,
\* 401 "Invalid API key", whether no account has the token's fingerprint or
\* an account has it and the hashed secret does not verify.
C2_UniformAuthenticationFailure ==
    \A s \in Slots :
      (Finished(s) /\ reqs[s].op \in AuthenticatedOps /\ reqs[s].x_pat # None
       /\ reqs[s].user = 0) =>
        /\ reqs[s].status = 401
        /\ reqs[s].body = [detail |-> "Invalid API key"]
        /\ reqs[s].calls = <<>>

\* C3 as stated: after any call of an endpoint by an authenticated account
\* the account has a configuration record and the call did not fail for want
\* of one.
C3_EveryCallCreatesMissingConfig ==
    \A s \in Slots :
      (Finished(s) /\ reqs[s].op \in AuthenticatedOps \ {"update_config"}
       /\ reqs[s].user # 0 /\ reqs[s].status # 500) =>
        /\ RowsOf(configs, reqs[s].user) # {}
        /\ reqs[s].body # [detail |-> "No configuration found for the user."]

\* C3, amended: only getConfig creates a missing record.  When a getConfig
\* that found no record comes to add one and the account still has none, it
\* adds the default record; when a work-item endpoint looks the
\* configuration up and the account has none, the request ends with 404 "No
\* configuration found for the user.", with no upstream call made and the
\* store and upstream as they were.
C3_OnlyGetConfigCreates ==
    [][ \A s \in Slots :
          (Stepped(s) /\ RowsOf(configs, reqs[s].user) = {}) =>
            /\ At(s, "get_config", "create") =>
                 /\ configs' = Append(configs, DefaultRecord(Len(configs) + 1, reqs[s].user))
                 /\ reqs'[s].pc = "refresh"
            /\ (reqs[s].op \in WorkItemOps /\ reqs[s].pc = "config") =>
                 /\ reqs'[s].pc = "done"
                 /\ reqs'[s].status = 404
                 /\ reqs'[s].body = [detail |-> "No configuration found for the user."]
                 /\ reqs'[s].calls = <<>>
                 /\ configs' = configs
                 /\ workitems' = workitems ]_vars

\* C3's case: a listWorkItems by an account with no record, ended with 404.
C3_Witness_ListWithoutConfig ==
    \E s \in Slots :
      /\ Finished(s)
      /\ reqs[s].op = "list_work_items"
      /\ reqs[s].user # 0
      /\ reqs[s].status = 404
      /\ reqs[s].calls = <<>>
      /\ RowsOf(configs, reqs[s].user) = {}

\* C4: a getConfig whose query finds no record goes on to add exactly one
\* record holding the four defaults, and returns the record as stored; a
\* getConfig whose query finds the record returns that record's values and
\* leaves the table as it is.  No step of a getConfig changes a stored field
\* and no account ever has two records.
C4_GetConfigIdempotent ==
    [][ \A s \in Slots :
          (Stepped(s) /\ reqs[s].op = "get_config") =>
            /\ reqs[s].pc = "query" =>
                 /\ configs' = configs
                 /\ IF RowsOf(configs, reqs[s].user) = {}
                      THEN reqs'[s].pc = "create"
                      ELSE /\ reqs'[s].pc = "done"
                           /\ reqs'[s].status = 200
                           /\ \E c \in RowsOf(configs, reqs[s].user) :
                                reqs'[s].body = ConfigView(c)
            /\ reqs[s].pc = "create" =>
                 IF RowsOf(configs, reqs[s].user) = {}
                   THEN /\ configs' = Append(configs,
                                             DefaultRecord(Len(configs) + 1, reqs[s].user))
                        /\ reqs'[s].pc = "refresh"
                   ELSE /\ configs' = configs
                        /\ reqs'[s].pc = "done"
                        /\ reqs'[s].status = 500
            /\ reqs[s].pc = "refresh" =>
                 /\ configs' = configs
                 /\ reqs'[s].pc = "done"
                 /\ reqs'[s].status = 200
                 /\ \E c \in RowsOf(configs, reqs[s].user) : reqs'[s].body = ConfigView(c)
            /\ \A u \in Rows(users) : Cardinality(RowsOf(configs', u.id)) <= 1 ]_vars

\* C4's case: two getConfig of one account both answered 200 with the
\* defaults; the account has one record, so one of them found the record
\* the other had created.
C4_Witness_SecondGetConfig ==
    \E s \in Slots, t \in Slots :
      /\ s # t
      /\ Finished(s) /\ Finished(t)
      /\ reqs[s].op = "get_config" /\ reqs[t].op = "get_config"
      /\ reqs[s].user = reqs[t].user
      /\ reqs[s].status = 200 /\ reqs[t].status = 200
      /\ reqs[s].body = DefaultView /\ reqs[t].body = DefaultView
      /\ RowsOf(configs, reqs[s].user) = {DefaultRecord(1, reqs[s].user)}

\* C5: an updateConfig on an account that has a record sets exactly the
\* fields the body gives, each to the body's value, and leaves the record's
\* other fields, its keys and every other record as they were.
C5_PartialUpdateFrame ==
    [][ \A s \in Slots :
          (Stepped(s) /\ At(s, "update_config", "commit")) =>
            /\ Len(configs') = Len(configs)
            /\ \A i \in 1..Len(configs) :
                 IF configs[i].user_id = reqs[s].user
                   THEN /\ \A f \in ConfigFields :
                             configs'[i][f] = IF reqs[s].args[f] # None
                                                THEN reqs[s].args[f][1]
                                                ELSE configs[i][f]
                        /\ configs'[i].id = configs[i].id
                        /\ configs'[i].user_id = configs[i].user_id
                   ELSE configs'[i] = configs[i] ]_vars

\* C6: an updateConfig whose query finds no record ends with 400 and the
\* table unchanged when a field is missing; only a body with all four fields
\* goes on to add a record, which holds exactly them.  A getConfig whose
\* query finds a record returns the record's values, not the defaults.
C6_CreateRequiresAllFields ==
    [][ \A s \in Slots :
          Stepped(s) =>
            /\ (At(s, "update_config", "query") /\ RowsOf(configs, reqs[s].user) = {}) =>
                 /\ configs' = configs
                 /\ IF \E f \in ConfigFields : reqs[s].args[f] = None
                      THEN /\ reqs'[s].pc = "done"
                           /\ reqs'[s].status = 400
                           /\ reqs'[s].body = [detail |-> "All required fields must be provided to create a new configuration."]
                      ELSE reqs'[s].pc = "create"
            /\ At(s, "update_config", "create") =>
                 /\ \A f \in ConfigFields : reqs[s].args[f] # None
                 /\ RowsOf(configs, reqs[s].user) = {} =>
                      configs' = Append(configs,
                                        [id |-> Len(configs) + 1,
                                         user_id |-> reqs[s].user,
                                         azure_devops_org |-> reqs[s].args.azure_devops_org[1],
                                         azure_devops_project |-> reqs[s].args.azure_devops_project[1],
                                         azure_devops_pat |-> reqs[s].args.azure_devops_pat[1],
                                         api_version |-> reqs[s].args.api_version[1]])
            /\ (At(s, "get_config", "query") /\ RowsOf(configs, reqs[s].user) # {}) =>
                 \A c \in RowsOf(configs, reqs[s].user) : reqs'[s].body = ConfigView(c) ]_vars

\* C6's case: an updateConfig with a field missing, refused on an account
\* that has no record.
C6_Witness_RefusedCreate ==
    \E s \in Slots :
      /\ Finished(s)
      /\ reqs[s].op = "update_config"
      /\ reqs[s].status = 400
      /\ RowsOf(configs, reqs[s].user) = {}

\* Whether the endpoint that made an outbound call treats its answer as a
\* failure: anything but 200, and for the creation call anything but 200, 201.
CallFailed(call) ==
    IF call.url.api = "wit/workitems/$Task" THEN call.status \notin {200, 201}
                                            ELSE call.status # 200

\* C7: when an outbound call of a request fails, the gateway's response
\* carries that call's status and that call's body, unchanged.
C7_UpstreamErrorsVerbatim ==
    \A s \in Slots :
      (reqs[s].calls # <<>> /\ CallFailed(reqs[s].calls[Len(reqs[s].calls)])) =>
        /\ Finished(s)
        /\ reqs[s].status = reqs[s].calls[Len(reqs[s].calls)].status
        /\ reqs[s].body = [detail |-> reqs[s].calls[Len(reqs[s].calls)].result.text]

\* The letters that read as a given lower-case letter when case is ignored.
SameLetter(c, lower) ==
    c = lower \/ \E k \in 1..26 : Lowercase[k] = lower /\ Uppercase[k] = c

\* The characters Python counts as whitespace (str.isspace), by code point.
IsSpace(c) ==
    c \in {"\t", "\n", "\\x0b", "\f", "\r", "\\x1c", "\\x1d", "\\x1e", "\\x1f", " ",
           "\\x85", "\\xa0", "\\u1680", "\\u2000", "\\u2001", "\\u2002", "\\u2003",
           "\\u2004", "\\u2005", "\\u2006", "\\u2007", "\\u2008", "\\u2009", "\\u200a",
           "\\u2028", "\\u2029", "\\u202f", "\\u205f", "\\u3000"}

\* A tag string has an entry equal to "enhanced", letter case and surrounding
\* whitespace ignored: between two neighbouring semicolons (or ends of the
\* string) lie the eight letters, in either case, with nothing but
\* whitespace before and after them.
ContainsEnhanced(tags) ==
    \E from \in 1..(Len(tags) + 1), to \in 0..Len(tags) :
      /\ from = 1 \/ tags[from - 1] = ";"
      /\ to = Len(tags) \/ tags[to + 1] = ";"
      /\ \A k \in from..to : tags[k] # ";"
      /\ \E first \in from..to :
           /\ first + 7 <= to
           /\ \A k \in 0..7 : SameLetter(tags[first + k], ENHANCED[k + 1])
           /\ \A k \in from..(first - 1) : IsSpace(tags[k])
           /\ \A k \in (first + 8)..to : IsSpace(tags[k])

TagsOf(fields) == IF "System.Tags" \in DOMAIN fields THEN fields["System.Tags"] ELSE <<>>

\* C8: when the existence GET of an updateWorkItem succeeds and the fetched
\* tag string has an "enhanced" entry, the operation list composed holds no
\* tag operation, and with neither title nor description the request ends
\* with 400 "No fields provided for update." with no PATCH sent and upstream
\* unchanged.  After every successful PATCH the item's tag string upstream
\* has an "enhanced" entry, so a repeated update is in that case.
C8_TagIdempotent ==
    [][ \A s \in Slots :
          (Stepped(s) /\ reqs[s].op = "update_work_item") =>
            /\ (reqs[s].pc = "get" /\ reqs'[s].calls[1].status = 200
                /\ ContainsEnhanced(TagsOf(reqs'[s].calls[1].result.fields))) =>
                 /\ reqs'[s].pc = "patch" =>
                      \A i \in 1..Len(reqs'[s].loc.patch_payload) :
                        reqs'[s].loc.patch_payload[i].path # "/fields/System.Tags"
                 /\ (~Truthy(reqs[s].args.title) /\ ~Truthy(reqs[s].args.description)) =>
                      /\ reqs'[s].pc = "done"
                      /\ reqs'[s].status = 400
                      /\ reqs'[s].body = [detail |-> "No fields provided for update."]
                      /\ Len(reqs'[s].calls) = 1
                      /\ workitems' = workitems
            /\ (reqs[s].pc = "patch" /\ reqs'[s].status = 200) =>
                 ContainsEnhanced(TagsOf(workitems'[reqs[s].args.work_item_id])) ]_vars

\* C8's case: an update with neither title nor description refused with 400
\* on an item whose tag string "enhanced" an earlier update wrote (no item
\* starts with that string).
C8_Witness_RepeatedUpdateRefused ==
    \E s \in Slots :
      /\ Finished(s)
      /\ reqs[s].op = "update_work_item"
      /\ reqs[s].status = 400
      /\ ~Truthy(reqs[s].args.title) /\ ~Truthy(reqs[s].args.description)
      /\ Len(reqs[s].calls) = 1
      /\ TagsOf(reqs[s].calls[1].result.fields) = ENHANCED
      /\ TagsOf(workitems[reqs[s].args.work_item_id]) = ENHANCED

\* The ids at the 0-based positions offset .. limit-1 of a list.
Positions(ids, offset, limit) ==
    [i \in 1..Max(0, Min(limit, Len(ids)) - offset) |-> ids[offset + i]]

\* C9: listWorkItems asks the query service for at most `limit` ids; when
\* the query succeeds it asks details for exactly the ids at positions
\* offset..limit-1 of the returned list, returns those items on success, so
\* at most max(0, limit - offset) and never more than limit, and when that
\* slice is empty returns an empty collection without a details call.
C9_ListPagination ==
    \A s \in Slots :
      (reqs[s].op = "list_work_items" /\ reqs[s].calls # <<>>) =>
        /\ reqs[s].calls[1].url.api = "wit/wiql"
        /\ reqs[s].calls[1].url.top = reqs[s].args.limit
        /\ reqs[s].calls[1].status = 200 =>
             LET returned == [i \in 1..Len(reqs[s].calls[1].result.workItems) |->
                                reqs[s].calls[1].result.workItems[i].id]
                 slice == Positions(returned, reqs[s].args.offset, reqs[s].args.limit)
             IN /\ Len(returned) <= reqs[s].args.limit
                /\ IF slice = <<>>
                     THEN /\ Finished(s)
                          /\ Len(reqs[s].calls) = 1
                          /\ reqs[s].status = 200
                          /\ reqs[s].body = [workItems |-> <<>>]
                     ELSE IF reqs[s].pc = "details"
                       THEN /\ Len(reqs[s].calls) = 1
                            /\ reqs[s].loc.work_item_ids = slice
                       ELSE /\ Finished(s)
                            /\ Len(reqs[s].calls) = 2
                            /\ reqs[s].calls[2].url.ids = slice
                            /\ reqs[s].status = 200 =>
                                 /\ [i \in 1..Len(reqs[s].body.workItems) |->
                                       reqs[s].body.workItems[i].id] =
                                    [i \in 1..Len(slice) |-> Some(slice[i])]
                                 /\ Len(reqs[s].body.workItems)
                                      <= Max(0, reqs[s].args.limit - reqs[s].args.offset)
                                 /\ Len(reqs[s].body.workItems) <= reqs[s].args.limit

\* C9's case: five matches (ids 5..1, newest first), limit 3, offset 1: the
\* query returned 5, 4, 3 and the items returned are 4 and 3.
C9_Witness_FiveMatchesLimit3Offset1 ==
    \E s \in Slots :
      /\ Finished(s)
      /\ reqs[s].op = "list_work_items"
      /\ reqs[s].args.limit = 3 /\ reqs[s].args.offset = 1
      /\ reqs[s].status = 200
      /\ Len(reqs[s].calls) = 2
      /\ Len(reqs[s].calls[1].result.workItems) = 3
      /\ reqs[s].calls[1].result.workItems[1].id = 5
      /\ Len(reqs[s].body.workItems) = 2
      /\ reqs[s].body.workItems[1].id = Some(4)
      /\ reqs[s].body.workItems[2].id = Some(3)

\* C10: GET /workitems/batch with an id list is served by
\* get_work_items_batch: one organization-scoped request for the whole list,
\* and on success every item carries the webUrl of its own id in the
\* caller's organization and project.
C10_BatchServedByBatchEndpoint ==
    \A s \in Slots :
      (reqs[s].path = <<"workitems", "batch">> /\ reqs[s].x_pat # None) =>
        /\ reqs[s].op = "get_work_items_batch"
        /\ (Finished(s) /\ reqs[s].status = 200) =>
             /\ Len(reqs[s].calls) = 1
             /\ reqs[s].calls[1].method = "GET"
             /\ Len(reqs[s].calls[1].url.scope) = 1
             /\ \A c \in RowsOf(configs, reqs[s].user) :
                  \A i \in 1..Len(reqs[s].body.workItems) :
                    reqs[s].body.workItems[i].webUrl =
                      <<"https://dev.azure.com", c.azure_devops_org, c.azure_devops_project,
                        "_workitems", "edit", reqs[s].body.workItems[i].id>>

\* The update body of a request, as the endpoint received it.
UpdateOf(r) == [title |-> r.args.title, description |-> r.args.description]

\* C11: the outbound calls of an updateWorkItem request are one existence
\* GET of the addressed item, first, and at most one PATCH after it.  The
\* PATCH is sent only after the GET answered 200 and only with a non-empty
\* operation list, which is the one composed from the fields the GET
\* returned.  A GET answered otherwise ends the request in failure with no
\* PATCH.  A failed call is the request's last call, the request fails with
\* its status and upstream is left as it was.  Nothing is retried: never two
\* GETs, never two PATCHes.
C11_UpdateCallsOrdered ==
    [][ \A s \in Slots :
          (Stepped(s) /\ reqs[s].op = "update_work_item") =>
            /\ reqs[s].pc = "config" => reqs'[s].calls = <<>>
            /\ reqs[s].pc = "get" =>
                 /\ reqs[s].calls = <<>>
                 /\ Len(reqs'[s].calls) = 1
                 /\ reqs'[s].calls[1].method = "GET"
                 /\ reqs'[s].calls[1].url.id = reqs[s].args.work_item_id
                 /\ workitems' = workitems
                 /\ IF reqs'[s].calls[1].status # 200
                      THEN /\ reqs'[s].pc = "done"
                           /\ reqs'[s].status = reqs'[s].calls[1].status
                    ELSE IF PatchPayload(reqs'[s].calls[1].result.fields, UpdateOf(reqs[s])) = <<>>
                      THEN /\ reqs'[s].pc = "done"
                           /\ reqs'[s].status = 400
                      ELSE /\ reqs'[s].pc = "patch"
                           /\ reqs'[s].loc.patch_payload =
                                PatchPayload(reqs'[s].calls[1].result.fields, UpdateOf(reqs[s]))
            /\ reqs[s].pc = "patch" =>
                 /\ Len(reqs[s].calls) = 1
                 /\ reqs[s].calls[1].method = "GET"
                 /\ reqs[s].calls[1].status = 200
                 /\ Len(reqs'[s].calls) = 2
                 /\ reqs'[s].calls[1] = reqs[s].calls[1]
                 /\ reqs'[s].calls[2].method = "PATCH"
                 /\ reqs'[s].calls[2].url.id = reqs[s].args.work_item_id
                 /\ reqs'[s].calls[2].json # <<>>
                 /\ reqs'[s].calls[2].json =
                      PatchPayload(reqs[s].calls[1].result.fields, UpdateOf(reqs[s]))
                 /\ reqs'[s].pc = "done"
                 /\ reqs'[s].status = reqs'[s].calls[2].status
                 /\ reqs'[s].calls[2].status # 200 => workitems' = workitems ]_vars

\* C11's case: an update whose existence GET answered 200 and whose PATCH,
\* sent second, failed: the request ended there with the PATCH's status.
C11_Witness_GetThenFailedPatch ==
    \E s \in Slots :
      /\ Finished(s)
      /\ reqs[s].op = "update_work_item"
      /\ Len(reqs[s].calls) = 2
      /\ reqs[s].calls[1].method = "GET" /\ reqs[s].calls[1].status = 200
      /\ reqs[s].calls[2].method = "PATCH" /\ reqs[s].calls[2].status = 404
      /\ reqs[s].status = 404

\* The operations of a payload that target a path.
OpsOn(payload, path) == {i \in 1..Len(payload) : payload[i].path = path}

\* The verb of every operation of a payload on a path is "replace" when
\* `exists` holds and "add" when it does not.
VerbIs(payload, path, exists) ==
    \A i \in OpsOn(payload, path) : payload[i].op = (IF exists THEN "replace" ELSE "add")

\* C12: in the operation list an updateWorkItem sends, a title (description)
\* operation is "replace" exactly when System.Title (System.Description) is
\* a key of the field bag the existence GET returned and "add" exactly when
\* it is not; the tag operation is "replace" exactly when the fetched tag
\* text is non-empty and "add" otherwise.  A field that was not supplied has
\* no operation, a supplied one has exactly one, and there is at most one
\* tag operation.
C12_OpVerbsFollowFetchedFields ==
    \A s \in Slots :
      (reqs[s].op = "update_work_item" /\ Len(reqs[s].calls) = 2) =>
        LET fields == reqs[s].calls[1].result.fields
            ops == reqs[s].calls[2].json
        IN /\ VerbIs(ops, "/fields/System.Title", "System.Title" \in DOMAIN fields)
           /\ VerbIs(ops, "/fields/System.Description", "System.Description" \in DOMAIN fields)
           /\ VerbIs(ops, "/fields/System.Tags", TagsOf(fields) # <<>>)
           /\ Cardinality(OpsOn(ops, "/fields/System.Title")) =
                (IF Truthy(reqs[s].args.title) THEN 1 ELSE 0)
           /\ Cardinality(OpsOn(ops, "/fields/System.Description")) =
                (IF Truthy(reqs[s].args.description) THEN 1 ELSE 0)
           /\ Cardinality(OpsOn(ops, "/fields/System.Tags")) <= 1
           /\ \A i \in 1..Len(ops) :
                ops[i].path \in {"/fields/System.Title", "/fields/System.Description",
                                 "/fields/System.Tags"}

\* C12's case: an update of title and description on an item fetched with a
\* description and a non-empty tag text but no title: the title is added,
\* the description and the tags are replaced.
C12_Witness_AddTitleReplaceOthers ==
    \E s \in Slots :
      /\ reqs[s].op = "update_work_item"
      /\ Len(reqs[s].calls) = 2
      /\ "System.Title" \notin DOMAIN reqs[s].calls[1].result.fields
      /\ "System.Description" \in DOMAIN reqs[s].calls[1].result.fields
      /\ TagsOf(reqs[s].calls[1].result.fields) # <<>>
      /\ Len(reqs[s].calls[2].json) = 3
      /\ reqs[s].calls[2].json[1].op = "add"
      /\ reqs[s].calls[2].json[2].op = "replace"
      /\ reqs[s].calls[2].json[3].op = "replace"

\* The Authorization header that carries a token: Basic base64(":" + token).
BasicOf(token) == <<"Basic", Base64(<<":", token>>)>>

\* C13: every outbound call of a work-item request carries in its
\* Authorization header the token the caller presented in
\* X-Azure-DevOps-PAT, whatever access token the caller's configuration
\* record holds.
C13_OutboundTokenIsPresentedCredential ==
    \A s \in Slots :
      (reqs[s].op \in WorkItemOps /\ reqs[s].user # 0) =>
        \A i \in 1..Len(reqs[s].calls) :
          reqs[s].calls[i].headers.Authorization = BasicOf(reqs[s].x_pat[1])

====
